---- MODULE Spec2Model ----
(***************************************************************************)
(* The analysis pipeline of the governance service: one job, from the      *)
(* POST /api/agents/analyze request to the end of the background task      *)
(* run_analysis, with Orchestrator.run and the agents it drives.           *)
(*                                                                         *)
(* Environment.  A generative call either raises or returns text; the text *)
(* either decodes to a JSON array or does not.  The store is available:    *)
(* the audit_log and jobs statements bind only strings the program builds  *)
(* and succeed.  The INSERT into findings binds values taken from the      *)
(* model's output and raises when the row breaks the table's schema (a     *)
(* NOT NULL column bound to null, a value sqlite cannot bind).             *)
(***************************************************************************)
EXTENDS Integers, Sequences, FiniteSets, TLC

(* ------------------------------ bounds ------------------------------- *)
\* findings in one decoded model response
MaxItems == 1
\* reviews in one decoded reviewer response
MaxReviews == 2
\* largest finding_index a review carries
MaxIndex == 1
\* length of the candidate lists filter_documents is tried on
MaxFilterLen == 3
\* tokens in the body of a text parse_json_response is tried on
MaxTextLen == 4
\* elements of the JSON arrays parse_json_response is tried on
MaxArrayLen == 2
\* finding rows another job writes into the shared store
MaxOtherRows == 1
\* human review requests (PATCH /api/findings/{id}/status)
MaxPatches == 1
\* findings handed to one call of run_reviewer
MaxFindings == 2

(* --------------------------- shared/schemas --------------------------- *)
AgentType == {"minutes_analyzer", "framework_checker", "coi_detector",
              "reviewer", "cross_document"}

DocumentType == {"minutes", "policy", "framework", "disclosure", "other"}

JobStatus == {"pending", "running", "reviewing", "completed", "failed"}

\* AGENT_ACCESS_MATRIX[agent]["can_read"]; an agent the matrix does not list
\* gets {} and so the empty list (BaseAgent.access_rules).
AGENT_ACCESS_MATRIX(agent) ==
    CASE agent = "minutes_analyzer"  -> {"minutes"}
      [] agent = "framework_checker" -> {"minutes", "policy", "framework"}
      [] agent = "coi_detector"      -> {"minutes", "disclosure"}
      [] agent = "cross_document"    -> {"minutes", "policy", "framework",
                                         "disclosure", "other"}
      [] OTHER                       -> {}

\* the orchestrator's list of analysis agents, in its order
agents == <<"minutes_analyzer", "framework_checker", "coi_detector">>

(* ------------------------------ documents ----------------------------- *)
\* The documents table: two uploaded documents.  content is "" for a
\* document whose extracted text is empty or blank.
StoredDocuments ==
    << [id |-> "d1", filename |-> "jan.pdf",    doc_type |-> "minutes",
        content |-> "text"],
       [id |-> "d2", filename |-> "policy.pdf", doc_type |-> "policy",
        content |-> ""] >>

\* identifiers a request may name: the stored ones and one unknown
RequestIds == {StoredDocuments[i].id : i \in DOMAIN StoredDocuments}
              \cup {"dX"}

\* SELECT ... FROM documents WHERE id IN (document_ids), as dicts
SelectDocuments(ids) == SelectSeq(StoredDocuments, LAMBDA d : d.id \in ids)

\* mutant: the filter without the fallback
filter_documents_strict(agent, docs) ==
    SelectSeq(docs, LAMBDA d : d.doc_type \in AGENT_ACCESS_MATRIX(agent))

\* BaseAgent.filter_documents
filter_documents(agent, docs) ==
    LET allowed  == AGENT_ACCESS_MATRIX(agent)
        filtered == SelectSeq(docs, LAMBDA d : d.doc_type \in allowed)
    IN  IF filtered = <<>> /\ docs # <<>> THEN docs ELSE filtered

(* ------------------------- model responses ---------------------------- *)
\* A finding object as the model may emit it.  flagged_for_review is the
\* truth value of the key (absent counts as false); valid says whether the
\* row save_finding builds from the object satisfies the findings schema
\* (finding "B" has a null title, which the NOT NULL column rejects).
\* source_document is the filename the model names ("absent": no key);
\* source_documents is the list a cross-document finding carries.
ModelFindings ==
    { [title |-> "A", confidence |-> "0.9", flagged_for_review |-> FALSE,
       valid |-> TRUE, source_document |-> "policy.pdf",
       source_documents |-> <<"jan.pdf", "policy.pdf">>,
       evidence_quotes |-> << <<"jan.pdf", "q1">>, <<"policy.pdf", "q2">> >>],
      [title |-> "B", confidence |-> "0.5", flagged_for_review |-> TRUE,
       valid |-> FALSE, source_document |-> "absent",
       source_documents |-> <<>>, evidence_quotes |-> <<>>] }

SeqsUpTo(S, n) == UNION {[1..k -> S] : k \in 0..n}

\* Text is a sequence of tokens.  "A" and "B" are the object literals of
\* ModelFindings (objects without a "findings" key and without brackets),
\* "{" opens an object with the one key "findings" and "}" closes it, "w" is
\* a word that is no JSON, "N" is the newline (the whitespace), "F" is the
\* fence ```.
Tokens == {"[", "]", ",", "{", "}", "A", "B", "w", "N", "F"}

\* decoded JSON values, all of one shape
Null == [kind |-> "null", name |-> "", items |-> <<>>]

Obj(name) == [kind |-> "object", name |-> name, items |-> <<>>]

Arr(items) == [kind |-> "array", name |-> "", items |-> items]

\* the object {"findings": v}
Dict(v) == [kind |-> "findings", name |-> "", items |-> <<v>>]

JSONDecodeError == [ok |-> FALSE, v |-> Null, next |-> 0]

Decoded(v, next) == [ok |-> TRUE, v |-> v, next |-> next]

\* the first position at or after i that holds no whitespace
skip_ws(text, i) ==
    LET rest == {j \in i..Len(text) : text[j] # "N"}
    IN  IF rest = {} THEN Len(text) + 1
        ELSE CHOOSE j \in rest : \A k \in rest : j <= k

RECURSIVE parse_value(_, _)
RECURSIVE parse_elements(_, _, _)

\* the JSON decoder at position i: a value and the position after it
parse_value(text, i) ==
    LET j == skip_ws(text, i)
    IN  IF j > Len(text) THEN JSONDecodeError
        ELSE IF text[j] \in {"A", "B"} THEN Decoded(Obj(text[j]), j + 1)
        ELSE IF text[j] = "["
        THEN LET k == skip_ws(text, j + 1)
             IN  IF k <= Len(text) /\ text[k] = "]"
                 THEN Decoded(Arr(<<>>), k + 1)
                 ELSE parse_elements(text, j + 1, <<>>)
        ELSE IF text[j] = "{"
        THEN LET r == parse_value(text, j + 1)
                 k == skip_ws(text, r.next)
             IN  IF r.ok /\ k <= Len(text) /\ text[k] = "}"
                 THEN Decoded(Dict(r.v), k + 1)
                 ELSE JSONDecodeError
        ELSE JSONDecodeError

\* the elements of an array after its "[" or after a ","
parse_elements(text, i, acc) ==
    LET r == parse_value(text, i)
        k == skip_ws(text, r.next)
    IN  IF ~r.ok \/ k > Len(text) THEN JSONDecodeError
        ELSE IF text[k] = "," THEN parse_elements(text, k + 1, Append(acc, r.v))
        ELSE IF text[k] = "]" THEN Decoded(Arr(Append(acc, r.v)), k + 1)
        ELSE JSONDecodeError

\* json.loads: [ok, v]; ok is FALSE where json.loads raises JSONDecodeError
json_loads(text) ==
    LET whole(r) == IF r.ok /\ skip_ws(text, r.next) > Len(text)
                    THEN [ok |-> TRUE, v |-> r.v]
                    ELSE [ok |-> FALSE, v |-> Null]
    IN  whole(parse_value(text, 1))

\* str.strip()
strip(text) ==
    LET keep == {j \in DOMAIN text : text[j] # "N"}
    IN  IF keep = {} THEN <<>>
        ELSE SubSeq(text, CHOOSE j \in keep : \A k \in keep : j <= k,
                          CHOOSE j \in keep : \A k \in keep : k <= j)

RECURSIVE split(_)
\* str.split("\n")
split(text) ==
    LET at == {j \in DOMAIN text : text[j] = "N"}
    IN  IF at = {} THEN <<text>>
        ELSE LET i == CHOOSE j \in at : \A k \in at : j <= k
             IN  <<SubSeq(text, 1, i - 1)>>
                     \o split(SubSeq(text, i + 1, Len(text)))

RECURSIVE join(_)
\* "\n".join(lines)
join(lines) ==
    IF lines = <<>> THEN <<>>
    ELSE IF Len(lines) = 1 THEN lines[1]
    ELSE lines[1] \o <<"N">> \o join(Tail(lines))

\* if cleaned.startswith("```"): drop the first line, and the last line
\* when it is a fence
strip_fence(cleaned) ==
    IF cleaned # <<>> /\ cleaned[1] = "F"
    THEN LET lines == Tail(split(cleaned))
             kept  == IF lines # <<>> /\ lines[Len(lines)] = <<"F">>
                      THEN SubSeq(lines, 1, Len(lines) - 1)
                      ELSE lines
         IN  join(kept)
    ELSE cleaned

\* cleaned[start : end + 1] with start = find("["), end = rfind("]");
\* <<>> stands for "one of the two is missing" (and for end < start, whose
\* slice is the empty string): neither decodes
bracket_substring(cleaned) ==
    LET opens  == {j \in DOMAIN cleaned : cleaned[j] = "["}
        closes == {j \in DOMAIN cleaned : cleaned[j] = "]"}
    IN  IF opens = {} \/ closes = {} THEN <<>>
        ELSE SubSeq(cleaned, CHOOSE j \in opens : \A k \in opens : j <= k,
                             CHOOSE j \in closes : \A k \in closes : k <= j)

\* mutant: a text that does not decode is not searched for an array
recover_nothing(cleaned) == Arr(<<>>)

\* the except JSONDecodeError branch of parse_json_response
recover(cleaned) ==
    LET found(r) == IF r.ok THEN r.v ELSE Arr(<<>>)
    IN  found(json_loads(bracket_substring(cleaned)))

\* mutant: a decoded value is always wrapped in a list
parse_json_response_wrapping(text) ==
    LET cleaned == strip_fence(strip(text))
        r       == json_loads(cleaned)
    IN  IF r.ok THEN Arr(<<r.v>>) ELSE recover(cleaned)

\* BaseAgent.parse_json_response on the text of a response: the value it
\* returns (it raises nothing)
parse_json_response(text) ==
    LET returned(cleaned, r) ==
            IF r.ok
            THEN IF r.v.kind = "findings" THEN r.v.items[1]
                 ELSE IF r.v.kind = "array" THEN r.v
                 ELSE Arr(<<r.v>>)
            ELSE recover(cleaned)
        loaded(cleaned) == returned(cleaned, json_loads(cleaned))
    IN  loaded(strip_fence(strip(text)))

\* a response whose text, unfenced, does not decode and holds no bracket
\* substring that decodes
holds_no_json(resp) ==
    LET undecodable(cleaned) ==
            /\ ~json_loads(cleaned).ok
            /\ ~json_loads(bracket_substring(cleaned)).ok
    IN  /\ resp.kind = "text"
        /\ undecodable(strip_fence(strip(resp.text)))

\* the object literal of a finding, and the finding of an object literal
FindingNamed(name) == CHOOSE f \in ModelFindings : f.title = name

\* json.dumps of a list of finding objects
RECURSIVE dumps_items(_)
dumps_items(items) ==
    IF items = <<>> THEN <<>>
    ELSE IF Len(items) = 1 THEN <<items[1].title>>
    ELSE <<items[1].title, ",">> \o dumps_items(Tail(items))

\* A generative call raises or returns text: text that holds no JSON
\* (<<"w">>), the text of an array of up to MaxItems finding objects, or
\* the text of an array that holds an array.
FindingResponses ==
    {[kind |-> "raise", text |-> <<>>], [kind |-> "text", text |-> <<"w">>],
     [kind |-> "text", text |-> <<"[", "[", "]", "]">>]}
    \cup {[kind |-> "text", text |-> <<"[">> \o dumps_items(s) \o <<"]">>] :
            s \in SeqsUpTo(ModelFindings, MaxItems)}

\* the in-memory finding dict built from a decoded object
AsFinding(obj) ==
    [agent_type |-> "unknown", title |-> obj.title,
     confidence |-> obj.confidence,
     flagged_for_review |-> obj.flagged_for_review,
     original_confidence |-> "absent", review_note |-> "absent",
     valid |-> obj.valid, source_document |-> obj.source_document,
     source_documents |-> obj.source_documents,
     evidence_quotes |-> obj.evidence_quotes]

\* the list of finding dicts built from a decoded list of objects
AsFindings(items) ==
    [i \in DOMAIN items |-> AsFinding(FindingNamed(items[i].name))]

\* a decoded value the loops over findings run through: a list of objects
\* (finding.get on anything else raises)
is_finding_list(v) ==
    v.kind = "array" /\ \A i \in DOMAIN v.items : v.items[i].kind = "object"

(* ------------------------------- audit -------------------------------- *)
\* one audit_log row: who wrote it, the action, the stage it is about and
\* the count its summary carries (0 when it carries none)
Entry(who, action, about, n) ==
    [agent_type |-> who, action |-> action, about |-> about, n |-> n]

\* mutant: one generative call for each document
generate_content_per_document(called, docs) == IF called THEN Len(docs) ELSE 0

\* the generative calls of one stage: the call stands after the loop over
\* the documents, which only builds the prompt
generate_content(called, docs) == IF called THEN 1 ELSE 0

\* mutant: the statement rewrites the newest row instead of adding one
log_audit_overwriting(log, entries) ==
    IF log = <<>> THEN entries ELSE SubSeq(log, 1, Len(log) - 1) \o entries

\* INSERT INTO audit_log ...: the rows are added after the ones there are
log_audit(log, entries) == log \o entries

(* ----------------------------- BaseAgent ------------------------------ *)
\* mutant: every document with text is a subject of the analysis
prompt_sections_all(agent, docs) == SelectSeq(docs, LAMBDA d : d.content # "")

\* the documents an agent's analyze turns into prompt sections
\* (MinutesAnalyzerAgent, COIDetectorAgent: every document with text;
\* FrameworkCheckerAgent: the minutes-like documents with text)
prompt_sections(agent, docs) ==
    LET subject == IF agent = "framework_checker"
                   THEN SelectSeq(docs, LAMBDA d : d.doc_type \in {"minutes", "other"})
                   ELSE docs
    IN  SelectSeq(subject, LAMBDA d : d.content # "")

\* analyze(documents) of the three agents: [raised, findings, called, audit].
\* It raises when the generative call raises and when the loop over the
\* parsed findings meets something that is no object.
analyze(agent, docs, resp) ==
    LET sections == prompt_sections(agent, docs)
        batch    == Entry(agent, "analyzing_batch", agent, Len(sections))
        mapped(parsed, found) ==
            IF resp.kind = "raise" \/ ~is_finding_list(parsed)
            THEN [raised |-> TRUE, findings |-> <<>>, called |-> TRUE,
                  audit |-> <<batch>>]
            ELSE [raised |-> FALSE, findings |-> found, called |-> TRUE,
                  audit |-> <<batch, Entry(agent, "batch_analyzed", agent,
                                           Len(found))>>]
        answered(parsed) == mapped(parsed, AsFindings(parsed.items))
    IN  IF sections = <<>>
        THEN [raised |-> FALSE, findings |-> <<>>, called |-> FALSE, audit |-> <<>>]
        ELSE answered(parse_json_response(resp.text))

\* mutant: the except clause logs the error and returns no findings
agent_run_swallowing(agent, docs, resp) ==
    LET filtered == filter_documents(agent, docs)
        started  == Entry(agent, "agent_started", agent, Len(filtered))
        r        == analyze(agent, filtered, resp)
    IN  IF r.raised
        THEN [raised |-> FALSE, findings |-> <<>>, called |-> r.called,
              audit |-> <<started>> \o r.audit
                        \o <<Entry(agent, "agent_error", agent, 0)>>]
        ELSE [raised |-> FALSE, findings |-> r.findings, called |-> r.called,
              audit |-> <<started>> \o r.audit
                        \o <<Entry(agent, "agent_completed", agent, Len(r.findings))>>]

\* BaseAgent.run: [raised, findings, called, audit]
agent_run(agent, docs, resp) ==
    LET filtered == filter_documents(agent, docs)
        started  == Entry(agent, "agent_started", agent, Len(filtered))
        analyzed(r) ==
            IF r.raised
            THEN [raised |-> TRUE, findings |-> <<>>, called |-> r.called,
                  audit |-> <<started>> \o r.audit
                            \o <<Entry(agent, "agent_error", agent, 0)>>]
            ELSE [raised |-> FALSE, findings |-> r.findings, called |-> r.called,
                  audit |-> <<started>> \o r.audit
                            \o <<Entry(agent, "agent_completed", agent,
                                        Len(r.findings))>>]
    IN  IF filtered = <<>>
        THEN [raised |-> FALSE, findings |-> <<>>, called |-> FALSE,
              audit |-> <<started, Entry(agent, "agent_skipped", agent, 0)>>]
        ELSE analyzed(analyze(agent, filtered, resp))


(* --------------------------- Orchestrator ----------------------------- *)
job_id == "job-1"

\* the "error: ..." marker of the per-agent result map
error_marker == [kind |-> "error", n |-> 0]

count_of(n) == [kind |-> "count", n |-> n]

\* mutant: the except clause records a count of 0
record_failure_as_zero(results, name) == (name :> count_of(0)) @@ results

\* agent_results[name] = f"error: ..." in the except clause of a stage
record_failure(results, name) == (name :> error_marker) @@ results

\* mutant: a stage that returned is recorded as failed
record_count_as_error(results, name, n) == (name :> error_marker) @@ results

\* mutant: the count of a stage that returned is not recorded
record_count_lost(results, name, n) == results

\* agent_results[name] = len(findings)
record_count(results, name, n) == (name :> count_of(n)) @@ results

\* mutant: the new findings are put in front
extend_front(all, findings) == findings \o all

\* all_findings.extend(findings)
extend(all, findings) == all \o findings

\* mutant: the guard of the raise is lost
no_documents_never(docs) == FALSE

\* if not documents: raise ValueError(...)
no_documents(docs) == docs = <<>>

\* mutant: run_reviewer has no try/except
caught_not_reviewer(stage) == stage \in {"agent", "cross_document", "save"}

\* mutant: the save loop has no try/except
caught_not_save(stage) == stage \in {"agent", "cross_document", "reviewer"}

\* mutant: the cross-document step has no try/except
caught_not_cross_document(stage) == stage \in {"agent", "reviewer", "save"}

\* mutant: the agent loop has no try/except
caught_not_agent(stage) == stage \in {"cross_document", "reviewer", "save"}

\* The try/except Exception around a stage of the orchestrator: the agent
\* loop ("agent"), the cross-document step ("cross_document"), the body of
\* run_reviewer ("reviewer"), one save_finding call ("save").  Each catches
\* what the stage raises.
caught(stage) == stage \in {"agent", "cross_document", "reviewer", "save"}

\* mutant: the status of a new job, copied from trigger_analysis
status_on_start_pending == "pending"

\* the status Orchestrator.run writes when it starts
status_on_start == "running"

\* mutant: the tagging loop is lost
Tag_none(findings, name) == findings

\* the tagging loop of Orchestrator.run and of run_cross_document_analysis
Tag(findings, name) == [i \in DOMAIN findings |-> [findings[i] EXCEPT !.agent_type = name]]

\* mutant: the last referenced document is promoted
promote_source_last(findings) ==
    [i \in DOMAIN findings |->
        [findings[i] EXCEPT !.source_document =
            IF findings[i].source_documents = <<>> THEN "null"
            ELSE findings[i].source_documents[Len(findings[i].source_documents)]]]

\* f["source_document"] = source_docs[0] if source_docs else None
promote_source(findings) ==
    [i \in DOMAIN findings |->
        [findings[i] EXCEPT !.source_document =
            IF findings[i].source_documents = <<>> THEN "null"
            ELSE findings[i].source_documents[1]]]

\* findings = json.loads(result_text) if result_text else []
loads_or_empty(result_text) ==
    IF result_text = <<>> THEN [ok |-> TRUE, v |-> Arr(<<>>)]
    ELSE json_loads(result_text)

\* mutant: the stage calls the model whatever the number of documents
run_cross_document_analysis_always(docs, resp) ==
    LET normalised(decoded) ==
            IF resp.kind = "raise" \/ ~decoded.ok \/ ~is_finding_list(decoded.v)
            THEN [raised |-> TRUE, findings |-> <<>>, called |-> TRUE]
            ELSE [raised |-> FALSE, called |-> TRUE,
                  findings |-> promote_source(
                      Tag(AsFindings(decoded.v.items), "cross_document"))]
    IN  normalised(loads_or_empty(strip_fence(strip(resp.text))))

\* Orchestrator.run_cross_document_analysis: [raised, findings, called].
\* json.loads is applied to the unfenced text directly, so text that holds
\* no JSON raises here, and so does the loop over the decoded value when it
\* meets something that is no object.
run_cross_document_analysis(docs, resp) ==
    LET normalised(decoded) ==
            IF resp.kind = "raise" \/ ~decoded.ok \/ ~is_finding_list(decoded.v)
            THEN [raised |-> TRUE, findings |-> <<>>, called |-> TRUE]
            ELSE [raised |-> FALSE, called |-> TRUE,
                  findings |-> promote_source(
                      Tag(AsFindings(decoded.v.items), "cross_document"))]
    IN  IF Len(docs) < 2
        THEN [raised |-> FALSE, findings |-> <<>>, called |-> FALSE]
        ELSE normalised(loads_or_empty(strip_fence(strip(resp.text))))

\* A review object of the reviewer's array.  finding_index -1 stands for a
\* missing key (r.get("finding_index", -1)); confidence_appropriate follows
\* review.get("confidence_appropriate", True); suggested_confidence is
\* "absent" when the key is missing.
Reviews ==
    { [finding_index |-> i, confidence_appropriate |-> ca,
       suggested_confidence |-> sc, flag_for_review |-> fl,
       review_note |-> IF fl THEN "weak evidence" ELSE "absent"] :
      i \in -1..MaxIndex, ca \in BOOLEAN, sc \in {"absent", "0.2"},
      fl \in BOOLEAN }

ReviewResponses ==
    {[kind |-> "raise", items |-> <<>>], [kind |-> "garbage", items |-> <<>>]}
    \cup {[kind |-> "array", items |-> s] : s \in SeqsUpTo(Reviews, MaxReviews)}

\* mutant: the first review with a key is the one kept
review_map_first(reviews) ==
    [k \in {reviews[j].finding_index : j \in DOMAIN reviews} |->
        LET js == {j \in DOMAIN reviews : reviews[j].finding_index = k}
        IN  reviews[CHOOSE j \in js : \A j2 \in js : j <= j2]]

\* review_map = {r.get("finding_index", -1): r for r in reviews}: a later
\* review replaces an earlier one with the same key
review_map(reviews) ==
    [k \in {reviews[j].finding_index : j \in DOMAIN reviews} |->
        LET js == {j \in DOMAIN reviews : reviews[j].finding_index = k}
        IN  reviews[CHOOSE j \in js : \A j2 \in js : j2 <= j]]

\* history: review_map.get(i) for the indexes i of a list of n findings
Lookups(reviews, n) ==
    LET map == review_map(reviews)
    IN  [k \in DOMAIN map \cap 0..(n - 1) |-> map[k]]

\* review.get("review_note", "")
note_of(review) ==
    IF review.review_note = "absent" THEN "" ELSE review.review_note

\* mutant: a reviewed finding is retagged as the reviewer's
apply_review_retagging(finding, review) ==
    [finding EXCEPT !.agent_type = "reviewer"]

\* mutant: the suggestion is taken whatever confidence_appropriate says
apply_review_any_suggestion(finding, review) ==
    LET adjusted ==
            IF review.suggested_confidence # "absent"
            THEN [finding EXCEPT !.original_confidence = finding.confidence,
                                 !.confidence = review.suggested_confidence]
            ELSE finding
    IN  IF review.flag_for_review
        THEN [adjusted EXCEPT !.flagged_for_review = TRUE,
                              !.review_note = review.review_note]
        ELSE adjusted

\* mutant: the flag is assigned from the review instead of only being set
apply_review_assign_flag(finding, review) ==
    LET adjusted ==
            IF ~review.confidence_appropriate
               /\ review.suggested_confidence # "absent"
            THEN [finding EXCEPT !.original_confidence = finding.confidence,
                                 !.confidence = review.suggested_confidence]
            ELSE finding
    IN  [adjusted EXCEPT !.flagged_for_review = review.flag_for_review,
                         !.review_note = review.review_note]

\* the body of the loop that applies one review to one finding
apply_review(finding, review) ==
    LET adjusted ==
            IF ~review.confidence_appropriate
               /\ review.suggested_confidence # "absent"
            THEN [finding EXCEPT !.original_confidence = finding.confidence,
                                 !.confidence = review.suggested_confidence]
            ELSE finding
    IN  IF review.flag_for_review
        THEN [adjusted EXCEPT !.flagged_for_review = TRUE,
                              !.review_note = note_of(review)]
        ELSE adjusted

\* for i, finding in enumerate(all_findings): review = review_map.get(i)
apply_reviews(findings, reviews) ==
    LET map == review_map(reviews)
    IN  [i \in DOMAIN findings |->
            IF (i - 1) \in DOMAIN map
            THEN apply_review(findings[i], map[i - 1])
            ELSE findings[i]]

FlaggedCount(findings) ==
    Cardinality({i \in DOMAIN findings : findings[i].flagged_for_review})

\* Orchestrator.run_reviewer: [raised, findings, called, audit]
run_reviewer(findings, resp) ==
    LET started == Entry("reviewer", "reviewer_started", "reviewer", Len(findings))
        applied == apply_reviews(findings, resp.items)
    IN  IF findings = <<>>
        THEN [raised |-> FALSE, findings |-> <<>>, called |-> FALSE, audit |-> <<>>]
        ELSE IF resp.kind \in {"raise", "garbage"}
        THEN IF caught("reviewer")
             THEN [raised |-> FALSE, findings |-> findings, called |-> TRUE,
                   audit |-> <<started, Entry("reviewer", "reviewer_error",
                                              "reviewer", 0)>>]
             ELSE [raised |-> TRUE, findings |-> findings, called |-> TRUE,
                   audit |-> <<started>>]
        ELSE [raised |-> FALSE, findings |-> applied, called |-> TRUE,
              audit |-> <<started, Entry("reviewer", "reviewer_completed",
                                         "reviewer", FlaggedCount(applied))>>]

\* the row Orchestrator.save_finding inserts; a key that is missing and a
\* key that holds None both bind NULL
finding_row(finding, agent_type, flagged) ==
    [job_id |-> job_id, agent_type |-> agent_type, title |-> finding.title,
     confidence |-> IF finding.confidence = "absent" THEN "0.5"
                    ELSE finding.confidence,
     source_document |-> IF finding.source_document \in {"absent", "null"}
                         THEN "null" ELSE finding.source_document,
     flagged_for_review |-> IF flagged THEN 1 ELSE 0,
     metadata |-> [original_confidence |-> finding.original_confidence,
                   review_note |-> finding.review_note,
                   review_status |-> "absent", reviewed_at |-> "absent",
                   source_documents |-> finding.source_documents,
                   evidence_quotes |-> finding.evidence_quotes]]

\* the INSERT of save_finding raises when the row breaks the schema
insert_raises(finding) ==
    ~finding.valid \/ finding.confidence = "null"


(* ------------------------------- state -------------------------------- *)
VARIABLES
    job,            \* the jobs row: <<>> before the request, else <<row>>
    findings_table, \* the findings rows of the store, in insertion order
    audit_log,      \* the audit_log rows of the store, in insertion order
    pc,             \* position of the background task run_analysis
    documents,      \* run_analysis: the loaded document dicts
    all_findings,   \* Orchestrator.run: the accumulated findings
    agent_results,  \* Orchestrator.run: the per-agent result map
    agent_i,        \* Orchestrator.run: index of the agent loop
    save_i,         \* Orchestrator.run: index of the save loop
    saved_count,    \* Orchestrator.run: saved_count
    result,         \* <<>> or <<summary>>: what Orchestrator.run returned
    exc,            \* <<>> or <<message>>: the exception run_analysis caught
    calls,          \* history: generative calls issued, per stage
    stages,         \* history: the stages in the order they were invoked
    reviewed,       \* history: <<>> or <<list>> handed to run_reviewer
    review_resp,    \* history: <<>> or <<[kind, got]>>, the reviewer's response:
                    \* its kind and what review_map.get(i) gave for each i
    malformed,      \* history: the stages whose generative call returned a
                    \* text that holds no JSON
    filtering,      \* one call of filter_documents: <<>> or <<[agent, docs,
                    \* out, returned]>>
    parsing,        \* one call of parse_json_response: <<>> or <<[text, out,
                    \* returned]>>
    reviewing,      \* one call of run_reviewer: <<>> or <<[findings, resp, out,
                    \* returned]>>
    analyzing,      \* one call of an agent's analyze: <<>> or <<[agent, docs,
                    \* resp, out, returned]>>
    patching        \* the answers of the review endpoint, in order:
                    \* [finding_id, code, status], the status being that of
                    \* the finding returned ("none" with a 404)

vars == <<job, findings_table, audit_log, pc, documents, all_findings,
          agent_results, agent_i, save_i, saved_count, result, exc,
          calls, stages, reviewed, review_resp, malformed, filtering,
          parsing, analyzing, reviewing, patching>>

store == <<job, findings_table, audit_log>>
locals == <<documents, all_findings, agent_results, agent_i, save_i,
            saved_count, result, exc>>
history == <<calls, stages, reviewed, review_resp, malformed>>
pipeline == <<store, pc, locals, history>>
probes == <<filtering, parsing, analyzing, reviewing, patching>>

StageNames == {"minutes_analyzer", "framework_checker", "coi_detector",
               "cross_document", "reviewer"}

InitPipeline ==
    /\ job = <<>>
    /\ findings_table = <<>>
    /\ audit_log = <<>>
    /\ pc = "idle"
    /\ documents = <<>>
    /\ all_findings = <<>>
    /\ agent_results = <<>>
    /\ agent_i = 0
    /\ save_i = 0
    /\ saved_count = 0
    /\ result = <<>>
    /\ exc = <<>>
    /\ calls = [s \in StageNames |-> 0]
    /\ stages = <<>>
    /\ reviewed = <<>>
    /\ review_resp = <<>>
    /\ malformed = {}

Init ==
    /\ InitPipeline
    /\ filtering = <<>>
    /\ parsing = <<>>
    /\ analyzing = <<>>
    /\ reviewing = <<>>
    /\ patching = <<>>

set_status(status) == job' = <<[job[1] EXCEPT !.status = status]>>

\* POST /api/agents/analyze: insert the job row, queue the background task
trigger_analysis ==
    /\ pc = "idle"
    /\ \E ids \in SUBSET RequestIds :
          job' = <<[id |-> job_id, status |-> "pending", document_ids |-> ids,
                    result_summary |-> <<>>, error |-> <<>>]>>
    /\ pc' = "queued"
    /\ UNCHANGED probes
    /\ UNCHANGED <<findings_table, audit_log, locals, history>>

\* run_analysis: UPDATE jobs SET status = 'running'
mark_running ==
    /\ pc = "queued"
    /\ set_status("running")
    /\ pc' = "load"
    /\ UNCHANGED probes
    /\ UNCHANGED <<findings_table, audit_log, locals, history>>

\* run_analysis: gather the documents; raise when there is none
load_documents ==
    /\ pc = "load"
    /\ LET docs == SelectDocuments(job[1].document_ids)
       IN  /\ documents' = docs
           /\ IF no_documents(docs)
              THEN pc' = "except" /\ exc' = <<"No documents found for the given IDs">>
              ELSE pc' = "orchestrate" /\ exc' = exc
    /\ UNCHANGED probes
    /\ UNCHANGED <<store, all_findings, agent_results, agent_i, save_i,
                   saved_count, result, history>>

\* Orchestrator.run up to the agent loop
orchestration_start ==
    /\ pc = "orchestrate"
    /\ audit_log' = log_audit(audit_log,
           <<Entry("orchestrator", "orchestration_started", "orchestrator",
                   Len(documents))>>)
    /\ set_status(status_on_start)
    /\ all_findings' = <<>>
    /\ agent_results' = <<>>
    /\ agent_i' = 1
    /\ pc' = "agent"
    /\ UNCHANGED probes
    /\ UNCHANGED <<findings_table, documents, save_i, saved_count, result,
                   exc, history>>


\* one iteration of the agent loop of Orchestrator.run
agent_stage ==
    /\ pc = "agent"
    /\ \E resp \in FindingResponses :
       \E r \in {agent_run(agents[agent_i], documents, resp)} :
          LET name == agents[agent_i]
              starting == Entry("orchestrator", "starting", name, 0)
              failed   == Entry("orchestrator", "failed", name, 0)
              next_pc  == IF agent_i < Len(agents) THEN "agent" ELSE "cross_document"
          IN  /\ stages' = Append(stages, name)
              /\ calls' = [calls EXCEPT ![name] = @ + generate_content(r.called, documents)]
              /\ malformed' = IF r.called /\ holds_no_json(resp)
                               THEN malformed \cup {name} ELSE malformed
              /\ IF r.raised /\ ~caught("agent")
                 THEN /\ audit_log' = log_audit(audit_log, <<starting>> \o r.audit)
                      /\ exc' = <<"agent error">>
                      /\ pc' = "except"
                      /\ UNCHANGED <<agent_results, all_findings, agent_i>>
                 ELSE IF r.raised
                 THEN /\ audit_log' = log_audit(audit_log, <<starting>> \o r.audit \o <<failed>>)
                      /\ agent_results' = record_failure(agent_results, name)
                      /\ agent_i' = agent_i + 1
                      /\ pc' = next_pc
                      /\ UNCHANGED <<all_findings, exc>>
                 ELSE /\ audit_log' = log_audit(audit_log, <<starting>> \o r.audit)
                      /\ agent_results' = record_count(agent_results, name, Len(r.findings))
                      /\ all_findings' = extend(all_findings, Tag(r.findings, name))
                      /\ agent_i' = agent_i + 1
                      /\ pc' = next_pc
                      /\ UNCHANGED exc
    /\ UNCHANGED probes
    /\ UNCHANGED <<job, findings_table, documents, save_i, saved_count,
                   result, reviewed, review_resp>>

\* the cross-document step of Orchestrator.run
cross_document_stage ==
    /\ pc = "cross_document"
    /\ \E resp \in FindingResponses :
       \E r \in {run_cross_document_analysis(documents, resp)} :
          LET starting  == Entry("orchestrator", "starting", "cross_document", 0)
              completed == Entry("orchestrator", "completed", "cross_document",
                                 Len(r.findings))
              failed    == Entry("orchestrator", "failed", "cross_document", 0)
          IN  /\ stages' = Append(stages, "cross_document")
              /\ calls' = [calls EXCEPT !["cross_document"] =
                                            @ + generate_content(r.called, documents)]
              /\ malformed' = IF r.called /\ holds_no_json(resp)
                               THEN malformed \cup {"cross_document"}
                               ELSE malformed
              /\ IF r.raised /\ ~caught("cross_document")
                 THEN /\ audit_log' = log_audit(audit_log, <<starting>>)
                      /\ exc' = <<"cross-document error">>
                      /\ pc' = "except"
                      /\ UNCHANGED <<agent_results, all_findings>>
                 ELSE IF r.raised
                 THEN /\ audit_log' = log_audit(audit_log, <<starting, failed>>)
                      /\ agent_results' = record_failure(agent_results, "cross_document")
                      /\ pc' = "mark_reviewing"
                      /\ UNCHANGED <<all_findings, exc>>
                 ELSE /\ audit_log' = log_audit(audit_log, <<starting, completed>>)
                      /\ agent_results' = record_count(agent_results, "cross_document",
                                                       Len(r.findings))
                      /\ all_findings' = extend(all_findings, r.findings)
                      /\ pc' = "mark_reviewing"
                      /\ UNCHANGED exc
    /\ UNCHANGED probes
    /\ UNCHANGED <<job, findings_table, documents, agent_i, save_i,
                   saved_count, result, reviewed, review_resp>>

\* Orchestrator.run: UPDATE jobs SET status = 'reviewing'
mark_reviewing ==
    /\ pc = "mark_reviewing"
    /\ set_status("reviewing")
    /\ pc' = "reviewer"
    /\ UNCHANGED probes
    /\ UNCHANGED <<findings_table, audit_log, locals, history>>

\* all_findings = await self.run_reviewer(all_findings)
reviewer_stage ==
    /\ pc = "reviewer"
    /\ \E resp \in ReviewResponses :
       \E r \in {run_reviewer(all_findings, resp)} :
              /\ audit_log' = log_audit(audit_log, r.audit)
              /\ calls' = [calls EXCEPT !["reviewer"] =
                                            @ + generate_content(r.called, documents)]
              /\ review_resp' = IF r.called
                                THEN <<[kind |-> resp.kind,
                                        got |-> Lookups(resp.items, Len(all_findings))]>>
                                ELSE <<>>
              /\ IF r.raised
                 THEN /\ exc' = <<"reviewer error">>
                      /\ pc' = "except"
                      /\ UNCHANGED <<all_findings, save_i, saved_count>>
                 ELSE /\ all_findings' = r.findings
                      /\ save_i' = 1
                      /\ saved_count' = 0
                      /\ pc' = "save"
                      /\ UNCHANGED exc
    /\ stages' = Append(stages, "reviewer")
    /\ reviewed' = <<all_findings>>
    /\ UNCHANGED probes
    /\ UNCHANGED <<job, findings_table, documents, agent_results, agent_i,
                   result, malformed>>

\* one iteration of the save loop of Orchestrator.run
save_step ==
    /\ pc = "save"
    /\ save_i <= Len(all_findings)
    /\ LET finding == all_findings[save_i]
       IN  IF insert_raises(finding) /\ ~caught("save")
           THEN /\ exc' = <<"insert error">>
                /\ pc' = "except"
                /\ UNCHANGED <<findings_table, saved_count, audit_log, save_i>>
           ELSE IF insert_raises(finding)
           THEN /\ audit_log' = log_audit(audit_log,
                      <<Entry("orchestrator", "save_finding_error", "orchestrator", 0)>>)
                /\ save_i' = save_i + 1
                /\ UNCHANGED <<findings_table, saved_count, pc, exc>>
           ELSE /\ findings_table' = Append(findings_table,
                      finding_row(finding, finding.agent_type,
                                  finding.flagged_for_review))
                /\ saved_count' = saved_count + 1
                /\ save_i' = save_i + 1
                /\ UNCHANGED <<audit_log, pc, exc>>
    /\ UNCHANGED probes
    /\ UNCHANGED <<job, documents, all_findings, agent_results, agent_i,
                   result, history>>

\* the summary, the last audit entry and the return of Orchestrator.run
summarize ==
    /\ pc = "save"
    /\ save_i > Len(all_findings)
    /\ result' = <<[total_findings |-> saved_count, by_agent |-> agent_results,
                    flagged_for_review |-> FlaggedCount(all_findings)]>>
    /\ audit_log' = log_audit(audit_log,
           <<Entry("orchestrator", "orchestration_completed", "orchestrator",
                   saved_count)>>)
    /\ pc' = "mark_completed"
    /\ UNCHANGED probes
    /\ UNCHANGED <<job, findings_table, documents, all_findings, agent_results,
                   agent_i, save_i, saved_count, exc, history>>

\* run_analysis: UPDATE jobs SET status = 'completed', result_summary = ...;
\* then finally: db.close()
mark_completed ==
    /\ pc = "mark_completed"
    /\ job' = <<[job[1] EXCEPT !.status = "completed", !.result_summary = result]>>
    /\ pc' = "done"
    /\ UNCHANGED probes
    /\ UNCHANGED <<findings_table, audit_log, locals, history>>

\* run_analysis, except Exception: UPDATE jobs SET status = 'failed', error = ...;
\* then finally: db.close()
mark_failed ==
    /\ pc = "except"
    /\ job' = <<[job[1] EXCEPT !.status = "failed", !.error = exc]>>
    /\ pc' = "done"
    /\ UNCHANGED probes
    /\ UNCHANGED <<findings_table, audit_log, locals, history>>

Next ==
    \/ trigger_analysis
    \/ mark_running
    \/ load_documents
    \/ orchestration_start
    \/ agent_stage
    \/ cross_document_stage
    \/ mark_reviewing
    \/ reviewer_stage
    \/ save_step
    \/ summarize
    \/ mark_completed
    \/ mark_failed

Spec == Init /\ [][Next]_vars


(* ------------------------- the shared store --------------------------- *)
\* the identifier of another job that runs against the same store
other_job_id == "job-2"

\* the statuses a human review request carries
ReviewStatuses == {"verified", "disputed", "flagged"}

OtherRows == {i \in DOMAIN findings_table : findings_table[i].job_id = other_job_id}

HumanEntries == {i \in DOMAIN audit_log : audit_log[i].agent_type = "human_reviewer"}

\* Orchestrator.save_finding of another job: a row under its identifier
other_job_save_finding ==
    /\ Cardinality(OtherRows) < MaxOtherRows
    /\ \E f \in {g \in ModelFindings : ~insert_raises(AsFinding(g))} :
          findings_table' = Append(findings_table,
              [finding_row(AsFinding(f), "minutes_analyzer", f.flagged_for_review)
                   EXCEPT !.job_id = other_job_id])
    /\ UNCHANGED <<job, audit_log, pc, locals, history, probes>>

\* a finding identifier that no row carries (a row's identifier is its
\* position in the table)
unknown_id == 0

\* mutant: only the status "flagged" sets the bit
flagged_of_flagged_only(status) == IF status = "flagged" THEN 1 ELSE 0

\* flagged = 1 if body.status in ("flagged", "disputed") else 0
flagged_of(status) == IF status \in {"flagged", "disputed"} THEN 1 ELSE 0

\* existing_meta["review_status"] = body.status;
\* existing_meta["reviewed_at"] = now
merge_status(metadata, status) ==
    [metadata EXCEPT !.review_status = status, !.reviewed_at = "now"]

\* PATCH /api/findings/{finding_id}/status: 404 when no row carries the
\* identifier, else the UPDATE of the row and the INSERT into audit_log
update_finding_status ==
    /\ Len(patching) < MaxPatches
    /\ \E finding_id \in DOMAIN findings_table \cup {unknown_id},
          status \in ReviewStatuses :
          IF finding_id \notin DOMAIN findings_table
          THEN /\ patching' = Append(patching,
                      [finding_id |-> finding_id, status |-> "none", code |-> 404])
               /\ UNCHANGED <<findings_table, audit_log>>
          ELSE /\ patching' = Append(patching,
                      [finding_id |-> finding_id, status |-> status, code |-> 200])
               /\ findings_table' =
                     [findings_table EXCEPT
                         ![finding_id].metadata =
                             merge_status(findings_table[finding_id].metadata, status),
                         ![finding_id].flagged_for_review = flagged_of(status)]
               /\ audit_log' = log_audit(audit_log,
                     <<Entry("human_reviewer", status, "finding", 0)>>)
    /\ UNCHANGED <<job, pc, locals, history, filtering, parsing, analyzing,
                   reviewing>>

\* this job and another job against one store
NextJobs ==
    \/ Next
    \/ other_job_save_finding

SpecJobs == Init /\ [][NextJobs]_vars

\* this job and the human review endpoint against one store
NextReview ==
    \/ Next
    \/ update_finding_status

SpecReview == Init /\ [][NextReview]_vars


(* --------------------------- analyze alone ---------------------------- *)
\* the content_text of a document: some text, or none
Contents == {"text", ""}

\* The documents handed to analyze: up to MaxFilterLen documents of any
\* declared type, with or without text.
InitAnalyze ==
    /\ InitPipeline
    /\ filtering = <<>>
    /\ parsing = <<>>
    /\ reviewing = <<>>
    /\ patching = <<>>
    /\ \E a \in {agents[i] : i \in DOMAIN agents},
          t \in SeqsUpTo(DocumentType \X Contents, MaxFilterLen),
          resp \in FindingResponses :
          analyzing = <<[agent |-> a,
                         docs |-> [i \in DOMAIN t |->
                                     [id |-> i, filename |-> "doc",
                                      doc_type |-> t[i][1], content |-> t[i][2]]],
                         resp |-> resp,
                         out |-> [raised |-> FALSE, findings |-> <<>>,
                                  called |-> FALSE, audit |-> <<>>],
                         returned |-> FALSE]>>

\* findings = await self.analyze(filtered_docs)
call_analyze ==
    /\ analyzing # <<>>
    /\ ~analyzing[1].returned
    /\ analyzing' = <<[analyzing[1] EXCEPT
                          !.out = analyze(analyzing[1].agent, analyzing[1].docs,
                                          analyzing[1].resp),
                          !.returned = TRUE]>>
    /\ UNCHANGED <<pipeline, filtering, parsing, reviewing, patching>>

NextAnalyze == call_analyze

SpecAnalyze == InitAnalyze /\ [][NextAnalyze]_vars


(* -------------------------- run_reviewer alone ------------------------ *)
\* The accumulated findings handed to run_reviewer: up to MaxFindings
\* findings of the minutes analyzer; the response: any of ReviewResponses.
InitReviewer ==
    /\ InitPipeline
    /\ filtering = <<>>
    /\ parsing = <<>>
    /\ analyzing = <<>>
    /\ patching = <<>>
    /\ \E fs \in SeqsUpTo(ModelFindings, MaxFindings), resp \in ReviewResponses :
          reviewing = <<[findings |-> Tag([i \in DOMAIN fs |-> AsFinding(fs[i])],
                                          "minutes_analyzer"),
                         resp |-> resp,
                         out |-> [raised |-> FALSE, findings |-> <<>>,
                                  called |-> FALSE, audit |-> <<>>],
                         returned |-> FALSE]>>

\* all_findings = await self.run_reviewer(all_findings)
call_run_reviewer ==
    /\ reviewing # <<>>
    /\ ~reviewing[1].returned
    /\ reviewing' = <<[reviewing[1] EXCEPT
                          !.out = run_reviewer(reviewing[1].findings,
                                               reviewing[1].resp),
                          !.returned = TRUE]>>
    /\ UNCHANGED <<pipeline, filtering, parsing, analyzing, patching>>

NextReviewer == call_run_reviewer

SpecReviewer == InitReviewer /\ [][NextReviewer]_vars


(* ------------------ a store whose statements may raise ---------------- *)
\* run_analysis: the UPDATE to 'completed' raises; the except clause takes
\* the exception
mark_completed_raises ==
    /\ pc = "mark_completed"
    /\ exc' = <<"store error">>
    /\ pc' = "except"
    /\ UNCHANGED probes
    /\ UNCHANGED <<store, documents, all_findings, agent_results, agent_i,
                   save_i, saved_count, result, history>>

\* run_analysis, except Exception: the UPDATE to 'failed' raises; nothing
\* encloses the except clause, so the exception leaves the background task
\* after finally: db.close()
mark_failed_raises ==
    /\ pc = "except"
    /\ pc' = "raised"
    /\ UNCHANGED probes
    /\ UNCHANGED <<store, locals, history>>

\* the steps of the background task run_analysis
run_analysis ==
    \/ mark_running
    \/ load_documents
    \/ orchestration_start
    \/ agent_stage
    \/ cross_document_stage
    \/ mark_reviewing
    \/ reviewer_stage
    \/ save_step
    \/ summarize
    \/ mark_completed
    \/ mark_failed

NextFaulty ==
    \/ Next
    \/ mark_completed_raises
    \/ mark_failed_raises

\* the background task, once queued, is run to its end: every call it
\* awaits returns, with a result or with an exception
SpecFaulty ==
    /\ Init
    /\ [][NextFaulty]_vars
    /\ WF_vars(run_analysis \/ mark_completed_raises \/ mark_failed_raises)

\* the same with a store whose statements do not raise
SpecLive == Init /\ [][Next]_vars /\ WF_vars(run_analysis)


(* ---------------------- filter_documents alone ------------------------ *)
\* The candidate lists: up to MaxFilterLen documents of any declared type,
\* the identifier of each being its position in the list.
InitFilter ==
    /\ InitPipeline
    /\ parsing = <<>>
    /\ analyzing = <<>>
    /\ reviewing = <<>>
    /\ patching = <<>>
    /\ \E a \in AgentType, t \in SeqsUpTo(DocumentType, MaxFilterLen) :
          filtering = <<[agent |-> a,
                         docs |-> [i \in DOMAIN t |->
                                     [id |-> i, filename |-> "doc",
                                      doc_type |-> t[i], content |-> "text"]],
                         out |-> <<>>, returned |-> FALSE]>>

\* filtered_docs = self.filter_documents(documents)
call_filter_documents ==
    /\ filtering # <<>>
    /\ ~filtering[1].returned
    /\ filtering' = <<[filtering[1] EXCEPT
                          !.out = filter_documents(filtering[1].agent,
                                                   filtering[1].docs),
                          !.returned = TRUE]>>
    /\ UNCHANGED <<pipeline, parsing, analyzing, reviewing, patching>>

NextFilter == call_filter_documents

SpecFilter == InitFilter /\ [][NextFilter]_vars

(* -------------------- parse_json_response alone ----------------------- *)
\* the tokens the tried texts are made of (one object literal is enough)
ParseTokens == Tokens \ {"B"}

\* how a tried text is built around a body: as it is, between an opening
\* and a closing fence line, the same with a language tag on the opening
\* line, or after an opening fence line that nothing closes
Wrappings == {"plain", "fenced", "tagged", "open"}

Wrapped(how, body) ==
    CASE how = "plain"  -> body
      [] how = "fenced" -> <<"F", "N">> \o body \o <<"N", "F">>
      [] how = "tagged" -> <<"F", "w", "N">> \o body \o <<"N", "F">>
      [] how = "open"   -> <<"F", "N">> \o body

RECURSIVE dumps(_)
RECURSIVE dumps_list(_)
\* the compact text of a JSON value
dumps(v) ==
    CASE v.kind = "object"   -> <<v.name>>
      [] v.kind = "array"    -> <<"[">> \o dumps_list(v.items) \o <<"]">>
      [] v.kind = "findings" -> <<"{">> \o dumps(v.items[1]) \o <<"}">>

dumps_list(items) ==
    IF items = <<>> THEN <<>>
    ELSE IF Len(items) = 1 THEN dumps(items[1])
    ELSE dumps(items[1]) \o <<",">> \o dumps_list(Tail(items))

\* JSON arrays of up to MaxArrayLen elements, each an object or an array
\* of up to MaxArrayLen objects
JsonArrays ==
    LET flat == {Arr(s) : s \in SeqsUpTo({Obj("A")}, MaxArrayLen)}
    IN  {Arr(s) : s \in SeqsUpTo({Obj("A")} \cup flat, MaxArrayLen)}

\* the text of each of them
ArrayTexts == [A \in JsonArrays |-> dumps(A)]

\* the bodies of the tried texts: every text of up to MaxTextLen tokens,
\* and the text of every array of JsonArrays
Bodies ==
    SeqsUpTo(ParseTokens, MaxTextLen) \cup {ArrayTexts[A] : A \in JsonArrays}

InitParse ==
    /\ InitPipeline
    /\ filtering = <<>>
    /\ analyzing = <<>>
    /\ reviewing = <<>>
    /\ patching = <<>>
    /\ \E body \in Bodies, how \in Wrappings :
          parsing = <<[text |-> Wrapped(how, body), out |-> Null,
                       returned |-> FALSE]>>

\* findings = self.parse_json_response(response_text)
call_parse_json_response ==
    /\ parsing # <<>>
    /\ ~parsing[1].returned
    /\ parsing' = <<[parsing[1] EXCEPT
                        !.out = parse_json_response(parsing[1].text),
                        !.returned = TRUE]>>
    /\ UNCHANGED <<pipeline, filtering, analyzing, reviewing, patching>>

NextParse == call_parse_json_response

SpecParse == InitParse /\ [][NextParse]_vars

(* ============================== claims ================================ *)
Status == IF job = <<>> THEN "none" ELSE job[1].status

Resolves(id) == \E i \in DOMAIN StoredDocuments : StoredDocuments[i].id = id

NoneResolves == job # <<>> /\ \A id \in job[1].document_ids : ~Resolves(id)

SomeResolves == job # <<>> /\ \E id \in job[1].document_ids : Resolves(id)

NoStageRan ==
    /\ stages = <<>>
    /\ \A s \in StageNames : calls[s] = 0
    /\ findings_table = <<>>
    /\ audit_log = <<>>

\* C1: a job none of whose requested document IDs resolves goes from
\* pending through running straight to failed, with an error message, and
\* no analysis agent, cross-document pass, reviewer or finding insert runs.
C1_NoDocumentsFails ==
    NoneResolves =>
        /\ NoStageRan
        /\ Status \in {"pending", "running", "failed"}
        /\ pc = "done" => Status = "failed" /\ job[1].error # <<>>

C1_Witness ==
    /\ pc = "done"
    /\ job[1].document_ids = {"dX"}
    /\ Status = "failed"

\* C2: the job is failed only when no requested document resolved; when one
\* did, no stage that raised (agent, cross-document, reviewer, insert of a
\* finding) makes the job failed, and the finished task leaves it completed.
C2_FailedOnlyWithoutDocuments ==
    /\ Status = "failed" => NoneResolves
    /\ SomeResolves /\ pc = "done" => Status = "completed"

StageRaised(s) ==
    \E i \in DOMAIN audit_log :
        /\ audit_log[i].about = s
        /\ audit_log[i].action \in {"failed", "reviewer_error", "save_finding_error"}

C2_Witness ==
    /\ pc = "done"
    /\ Status = "completed"
    /\ StageRaised("minutes_analyzer")
    /\ StageRaised("cross_document")
    /\ StageRaised("reviewer")
    /\ StageRaised("orchestrator")


AnalysisAgents == {"minutes_analyzer", "framework_checker", "coi_detector"}

\* the agent's own "agent_error" entry: its analysis raised
AgentRaised(a) ==
    \E i \in DOMAIN audit_log :
        audit_log[i].agent_type = a /\ audit_log[i].action = "agent_error"

TitlesOf(rows) == [i \in DOMAIN rows |-> rows[i].title]

RowsOf(a) == SelectSeq(findings_table, LAMBDA r : r.agent_type = a)

\* the findings stage a handed to the orchestrator, as the reviewer got them
ReturnedBy(a) == SelectSeq(reviewed[1], LAMBDA f : f.agent_type = a)

CountOf(action) ==
    Cardinality({i \in DOMAIN audit_log : audit_log[i].action = action})

Summary == job[1].result_summary[1]

AfterAgentFailure ==
    /\ pc = "done"
    /\ SomeResolves
    /\ \E a \in AnalysisAgents : AgentRaised(a)

AgentFailureReported ==
    /\ Status = "completed"
    /\ Summary.by_agent = agent_results
    /\ \A a \in AnalysisAgents :
          AgentRaised(a) => /\ a \in DOMAIN Summary.by_agent
                            /\ Summary.by_agent[a].kind = "error"

\* C3 as stated: after an analysis agent raised, the job is completed, the
\* agent's summary entry is an error string, and every finding the other
\* agents returned is a row of the findings table.
C3_AllOtherFindingsPersisted ==
    AfterAgentFailure =>
        /\ AgentFailureReported
        /\ \A a \in AnalysisAgents :
              ~AgentRaised(a) => TitlesOf(RowsOf(a)) = TitlesOf(ReturnedBy(a))

\* C3 amended: after an analysis agent raised, the job is completed, the
\* agent's summary entry is an error string, and every finding the other
\* agents returned is a row of the findings table unless its own insert
\* raised, in which case a save_finding_error entry stands for it.
C3_OtherFindingsPersistedUnlessRejected ==
    AfterAgentFailure =>
        /\ AgentFailureReported
        /\ \A a \in AnalysisAgents :
              ~AgentRaised(a) =>
                  TitlesOf(RowsOf(a)) =
                      TitlesOf(SelectSeq(ReturnedBy(a), LAMBDA f : f.valid))
        /\ CountOf("save_finding_error") =
              Cardinality({i \in DOMAIN all_findings : ~all_findings[i].valid})

C3_Witness ==
    /\ AfterAgentFailure
    /\ AgentRaised("framework_checker")
    /\ ~AgentRaised("minutes_analyzer")
    /\ RowsOf("minutes_analyzer") # <<>>
    /\ CountOf("save_finding_error") > 0

Rank(status) ==
    CASE status = "none"      -> 0
      [] status = "pending"   -> 1
      [] status = "running"   -> 2
      [] status = "reviewing" -> 3
      [] status \in {"completed", "failed"} -> 4

StatusAfter == IF job' = <<>> THEN "none" ELSE job'[1].status

\* C4: every step leaves the stored status where it is or moves it forward
\* along pending, running, reviewing, completed, or to failed; from
\* completed or failed no step changes the status, and no stage runs, no
\* generative call is issued and no finding or audit row is written.
C4_StatusMovesForward ==
    [][ /\ StatusAfter \in JobStatus
        /\ Rank(StatusAfter) >= Rank(Status)
        /\ Status \in {"completed", "failed"} =>
              /\ StatusAfter = Status
              /\ UNCHANGED <<stages, calls, findings_table, audit_log>> ]_vars

C4_Witness ==
    /\ pc = "done"
    /\ Status = "completed"
    /\ Summary.total_findings > 0
    /\ audit_log[Len(audit_log)].action = "orchestration_completed"


\* the stages the orchestrator announced ("..._starting"), in order
Started ==
    LET es == SelectSeq(audit_log, LAMBDA e : e.agent_type = "orchestrator"
                                              /\ e.action = "starting")
    IN  [i \in DOMAIN es |-> es[i].about]

IsPrefix(s, t) == Len(s) <= Len(t) /\ \A i \in DOMAIN s : s[i] = t[i]

\* the stage announced last before audit row k ("none" when there is none)
RunningAt(k) ==
    LET before == {i \in 1..(k - 1) : audit_log[i].agent_type = "orchestrator"
                                      /\ audit_log[i].action = "starting"}
    IN  IF before = {} THEN "none"
        ELSE audit_log[CHOOSE i \in before : \A j \in before : j <= i].about

TaggedWith(findings, a) ==
    Cardinality({i \in DOMAIN findings : findings[i].agent_type = a})

\* the count agent a reported in its own "agent_completed" entry
ReturnedCount(a) ==
    LET ks == {k \in DOMAIN audit_log : audit_log[k].agent_type = a
                                        /\ audit_log[k].action = "agent_completed"}
    IN  IF ks = {} THEN 0 ELSE audit_log[CHOOSE k \in ks : TRUE].n

PastAgentLoop ==
    \/ pc \in {"cross_document", "mark_reviewing", "reviewer", "save",
               "mark_completed"}
    \/ pc = "done" /\ audit_log # <<>>

\* C5: the orchestrator starts the Minutes, Framework and COI agents in
\* that order, each once, one after the other has ended (with a result or
\* an exception), all three in every job that gets past the agent loop;
\* every audit row of an agent lies between its start and the next start;
\* and the accumulated list holds, tagged with the agent's identifier,
\* exactly as many findings as the agent returned.
C5_AgentsInOrderAndTagged ==
    /\ IsPrefix(Started, <<"minutes_analyzer", "framework_checker",
                           "coi_detector", "cross_document">>)
    /\ PastAgentLoop => Len(Started) >= 3
    /\ \A k \in DOMAIN audit_log :
          audit_log[k].agent_type \in AnalysisAgents =>
              RunningAt(k) = audit_log[k].agent_type
    /\ \A a \in AnalysisAgents :
          /\ Cardinality({k \in DOMAIN audit_log :
                 audit_log[k].agent_type = a
                 /\ audit_log[k].action = "agent_started"}) <= 1
          /\ (pc # "agent" \/ a \in DOMAIN agent_results) =>
                 TaggedWith(all_findings, a) = ReturnedCount(a)

C5_Witness ==
    /\ pc = "cross_document"
    /\ AgentRaised("minutes_analyzer")
    /\ TaggedWith(all_findings, "framework_checker") = 1
    /\ TaggedWith(all_findings, "coi_detector") = 1

StageOrder == <<"minutes_analyzer", "framework_checker", "coi_detector",
                "cross_document", "reviewer">>

StageRank(a) == CHOOSE i \in DOMAIN StageOrder : StageOrder[i] = a

PastCrossDocument ==
    \/ pc \in {"mark_reviewing", "reviewer", "save", "mark_completed"}
    \/ pc = "done" /\ audit_log # <<>>

\* C6: the stages run in the order Minutes, Framework, COI, cross-document,
\* reviewer, each at most once and the cross-document stage exactly once in
\* a job that gets past it; the reviewer runs with the job marked
\* reviewing, over the agents' findings in agent order followed by the
\* cross-document findings, each stage's share as large as the count it
\* recorded; and no finding row exists before the reviewer has returned.
C6_CrossThenReviewThenSave ==
    /\ IsPrefix(stages, StageOrder)
    /\ PastCrossDocument =>
          Cardinality({i \in DOMAIN stages : stages[i] = "cross_document"}) = 1
    /\ reviewed # <<>> =>
          /\ Status \in {"reviewing", "completed"}
          /\ "cross_document" \in DOMAIN agent_results
          /\ \A i, j \in DOMAIN reviewed[1] :
                i < j => StageRank(reviewed[1][i].agent_type)
                            <= StageRank(reviewed[1][j].agent_type)
          /\ \A a \in DOMAIN agent_results :
                TaggedWith(reviewed[1], a) = agent_results[a].n
    /\ findings_table # <<>> => reviewed # <<>>

C6_Witness ==
    /\ pc = "save"
    /\ save_i = 1
    /\ TaggedWith(reviewed[1], "cross_document") = 1
    /\ TaggedWith(reviewed[1], "minutes_analyzer") = 1
    /\ TaggedWith(reviewed[1], "coi_detector") = 1
    /\ findings_table = <<>>


ReviewerFailed ==
    review_resp # <<>> /\ review_resp[1].kind \in {"raise", "garbage"}

ReviewsApplied == review_resp # <<>> /\ review_resp[1].kind = "array"

Bit(b) == IF b THEN 1 ELSE 0

\* the findings whose insert the schema accepts, in list order
Accepted(findings) == SelectSeq(findings, LAMBDA f : f.valid)

Rejected(findings) == {i \in DOMAIN findings : ~findings[i].valid}

ReviewerFailureHandled ==
    /\ CountOf("reviewer_error") = 1
    /\ CountOf("reviewer_completed") = 0
    /\ pc \in {"save", "mark_completed", "done"}
    /\ Status = IF pc = "done" THEN "completed" ELSE "reviewing"
    /\ all_findings = reviewed[1]

\* C7 as stated: when the reviewer's call raises or its output does not
\* decode, one reviewer_error entry is written, the pipeline goes on to a
\* completed job, and every accumulated finding is a row of the findings
\* table with the confidence and flagged state it had before the reviewer.
C7_AllPersistedUnreviewed ==
    ReviewerFailed =>
        /\ ReviewerFailureHandled
        /\ pc = "done" =>
              /\ Len(findings_table) = Len(reviewed[1])
              /\ \A i \in DOMAIN findings_table :
                    /\ findings_table[i].confidence = reviewed[1][i].confidence
                    /\ findings_table[i].flagged_for_review =
                           Bit(reviewed[1][i].flagged_for_review)

\* C7 amended: when the reviewer's call raises or its output does not
\* decode, one reviewer_error entry is written, the pipeline goes on to a
\* completed job, every accumulated finding reaches the save loop as it was
\* before the reviewer, and each is a row of the findings table with that
\* confidence and flagged state unless its own insert raised.
C7_PersistedUnreviewedUnlessRejected ==
    ReviewerFailed =>
        /\ ReviewerFailureHandled
        /\ pc = "done" =>
              LET kept == Accepted(reviewed[1])
              IN  /\ Len(findings_table) = Len(kept)
                  /\ CountOf("save_finding_error") = Cardinality(Rejected(reviewed[1]))
                  /\ \A i \in DOMAIN findings_table :
                        /\ findings_table[i].title = kept[i].title
                        /\ findings_table[i].agent_type = kept[i].agent_type
                        /\ findings_table[i].confidence = kept[i].confidence
                        /\ findings_table[i].flagged_for_review =
                               Bit(kept[i].flagged_for_review)
                        /\ findings_table[i].metadata.original_confidence = "absent"

C7_Witness ==
    /\ ReviewerFailed
    /\ review_resp[1].kind = "garbage"
    /\ pc = "done"
    /\ Len(findings_table) >= 2
    /\ Rejected(reviewed[1]) # {}

\* the review review_map.get(i) gave for the finding at position i (from 1)
HasReview(i) == (i - 1) \in DOMAIN review_resp[1].got

ReviewOf(i) == review_resp[1].got[i - 1]

Replaces(i) ==
    /\ HasReview(i)
    /\ ~ReviewOf(i).confidence_appropriate
    /\ ReviewOf(i).suggested_confidence # "absent"

\* C8: once the reviewer has applied its reviews, a finding whose matching
\* review marks the confidence inappropriate and carries a suggestion has
\* the suggestion as confidence and its earlier confidence as
\* original_confidence; every other finding has the confidence and the
\* original_confidence (none) it had before.
C8_ConfidenceReplacedExactlyWhenSuggested ==
    ReviewsApplied =>
        /\ Len(all_findings) = Len(reviewed[1])
        /\ \A i \in DOMAIN all_findings :
              IF Replaces(i)
              THEN /\ all_findings[i].confidence = ReviewOf(i).suggested_confidence
                   /\ all_findings[i].original_confidence = reviewed[1][i].confidence
              ELSE /\ all_findings[i].confidence = reviewed[1][i].confidence
                   /\ all_findings[i].original_confidence =
                          reviewed[1][i].original_confidence

C8_Witness ==
    /\ ReviewsApplied
    /\ Len(all_findings) >= 2
    /\ Replaces(1)
    /\ all_findings[1].original_confidence = "0.9"
    /\ HasReview(2)
    /\ ReviewOf(2).confidence_appropriate
    /\ ReviewOf(2).suggested_confidence = "0.2"
    /\ all_findings[2].confidence = "0.5"


Flags(i) == HasReview(i) /\ ReviewOf(i).flag_for_review

ReviewerFlagsInMemory ==
    /\ Len(all_findings) = Len(reviewed[1])
    /\ \A i \in DOMAIN all_findings :
          /\ Flags(i) => /\ all_findings[i].flagged_for_review
                         /\ all_findings[i].review_note # "absent"
                         /\ all_findings[i].review_note \in
                                {ReviewOf(i).review_note, ""}
          /\ reviewed[1][i].flagged_for_review => all_findings[i].flagged_for_review

\* C9 as stated: once the reviewer has applied its reviews, every finding
\* whose matching review has flag_for_review true is flagged and carries
\* the review note, no finding that was flagged has lost its flag, and in
\* the finished job each such finding is a row with the flagged bit set.
C9_FlaggedAndPersisted ==
    ReviewsApplied =>
        /\ ReviewerFlagsInMemory
        /\ pc = "done" =>
              \A i \in DOMAIN all_findings :
                  Flags(i) =>
                      \E k \in DOMAIN findings_table :
                          /\ findings_table[k].agent_type = all_findings[i].agent_type
                          /\ findings_table[k].title = all_findings[i].title
                          /\ findings_table[k].flagged_for_review = 1

\* C9 amended: once the reviewer has applied its reviews, every finding
\* whose matching review has flag_for_review true is flagged and carries
\* the review note, no finding that was flagged has lost its flag, and in
\* the finished job each finding whose insert did not raise is a row whose
\* flagged bit is the finding's flagged state and whose metadata holds the
\* note.
C9_FlaggedAndPersistedUnlessRejected ==
    ReviewsApplied =>
        /\ ReviewerFlagsInMemory
        /\ pc = "done" =>
              LET kept == Accepted(all_findings)
              IN  /\ Len(findings_table) = Len(kept)
                  /\ \A k \in DOMAIN findings_table :
                        /\ findings_table[k].agent_type = kept[k].agent_type
                        /\ findings_table[k].title = kept[k].title
                        /\ findings_table[k].flagged_for_review =
                               Bit(kept[k].flagged_for_review)
                        /\ findings_table[k].metadata.review_note =
                               kept[k].review_note

C9_Witness ==
    /\ ReviewsApplied
    /\ pc = "done"
    /\ Len(all_findings) >= 2
    /\ Flags(1)
    /\ ~reviewed[1][1].flagged_for_review
    /\ findings_table[1].flagged_for_review = 1
    /\ findings_table[1].metadata.review_note = "weak evidence"
    /\ HasReview(2)
    /\ ~ReviewOf(2).flag_for_review
    /\ reviewed[1][2].flagged_for_review

Readable(agent, docs) ==
    {i \in DOMAIN docs : docs[i].doc_type \in AGENT_ACCESS_MATRIX(agent)}

\* C10: filter_documents returns, in input order, exactly the documents
\* whose declared type the agent may read when there is one, and the whole
\* input when there is none; so a document of a type the agent may not read
\* is in the result only when no document of the input is readable.
C10_FilterOrFallback ==
    (filtering # <<>> /\ filtering[1].returned) =>
        LET f    == filtering[1]
            read == Readable(f.agent, f.docs)
        IN  /\ read # {} =>
                  /\ Len(f.out) = Cardinality(read)
                  /\ {f.out[k].id : k \in DOMAIN f.out} = read
                  /\ \A k \in DOMAIN f.out : f.out[k] = f.docs[f.out[k].id]
                  /\ \A j, k \in DOMAIN f.out : j < k => f.out[j].id < f.out[k].id
            /\ read = {} => f.out = f.docs
            /\ \A k \in DOMAIN f.out :
                  f.out[k].doc_type \notin AGENT_ACCESS_MATRIX(f.agent) => read = {}

C10_Witness ==
    /\ filtering # <<>>
    /\ filtering[1].returned
    /\ filtering[1].agent = "coi_detector"
    /\ Len(filtering[1].docs) = 3
    /\ filtering[1].docs[1].doc_type = "policy"
    /\ Len(filtering[1].out) = 2


Parsed == parsing # <<>> /\ parsing[1].returned

\* C11: for every JSON array A, parsing the plain text of A returns A, and
\* parsing that text between an opening fence line (with or without a
\* language tag) and a closing fence line returns A as well.
C11_ArrayParsesPlainAndFenced ==
    Parsed =>
        \A A \in JsonArrays :
            parsing[1].text \in {ArrayTexts[A],
                                 Wrapped("fenced", ArrayTexts[A]),
                                 Wrapped("tagged", ArrayTexts[A])}
                => parsing[1].out = A

C11_Witness ==
    /\ Parsed
    /\ parsing[1].text = <<"F", "w", "N", "[", "A", ",", "A", "]", "N", "F">>
    /\ parsing[1].out = Arr(<<Obj("A"), Obj("A")>>)

Decodes(text) == json_loads(text).ok

Nothing == Arr(<<>>)

\* what the claim of C12 says of a text
EmptyOrBracketSubstring(text) ==
    ~Decodes(text) =>
        IF Decodes(bracket_substring(text))
        THEN parsing[1].out = json_loads(bracket_substring(text)).v
        ELSE parsing[1].out = Nothing

\* C12 as stated: a response text that does not decode and whose substring
\* from its first "[" to its last "]" does not decode parses to the empty
\* list; a text that does not decode but whose bracket substring does
\* parses to the decoded substring.
C12_UndecodableTextParsesEmpty ==
    Parsed => EmptyOrBracketSubstring(parsing[1].text)

\* C12 amended: the same of the text that is left once the response is
\* stripped and, when it starts with a fence, its first line and its closing
\* fence line are removed.
C12_UndecodableUnfencedTextParsesEmpty ==
    Parsed => EmptyOrBracketSubstring(strip_fence(strip(parsing[1].text)))

C12_Witness ==
    /\ Parsed
    /\ parsing[1].text = <<"[", "A", "w", "]">>
    /\ ~Decodes(parsing[1].text)
    /\ ~Decodes(bracket_substring(parsing[1].text))
    /\ parsing[1].out = Nothing


\* the stage's entry of the per-agent result map is the count 0
RecoveredAsEmpty(s) ==
    s \in DOMAIN agent_results /\ agent_results[s] = count_of(0)

\* C13: a stage (analysis agent or cross-document) whose generative call
\* returned text that holds no JSON is recorded with the finding count 0,
\* never with an error marker, adds no finding, and the job does not fail.
C13_MalformedResponseIsNoError ==
    /\ \A s \in malformed :
          /\ RecoveredAsEmpty(s)
          /\ \A i \in DOMAIN all_findings : all_findings[i].agent_type # s
    /\ malformed # {} => Status # "failed"
    /\ malformed # {} /\ pc = "done" =>
          /\ Status = "completed"
          /\ \A s \in malformed : Summary.by_agent[s] = count_of(0)

\* C13, what the code does with such a text: the analysis agents record the
\* count 0, the cross-document stage records an error marker; in both no
\* finding is added and the job completes
C13_AgentsRecoverCrossDocumentRaises ==
    /\ \A s \in malformed :
          /\ s \in DOMAIN agent_results
          /\ agent_results[s] = IF s = "cross_document" THEN error_marker
                                ELSE count_of(0)
          /\ \A i \in DOMAIN all_findings : all_findings[i].agent_type # s
    /\ malformed # {} => Status # "failed"
    /\ malformed # {} /\ pc = "done" => Status = "completed"

C13_Witness ==
    /\ pc = "done"
    /\ Status = "completed"
    /\ malformed = {"minutes_analyzer", "cross_document"}
    /\ Summary.by_agent["minutes_analyzer"] = count_of(0)
    /\ Summary.by_agent["cross_document"] = error_marker


\* the cross-document stage was entered and did not return
CrossDocumentRaised ==
    /\ \E i \in DOMAIN stages : stages[i] = "cross_document"
    /\ ~\E i \in DOMAIN audit_log :
          audit_log[i].about = "cross_document" /\ audit_log[i].action = "completed"

\* the number of findings the analysis agents returned, by the result map
AgentsFindingCount ==
    LET n(a) == IF a \in DOMAIN agent_results /\ agent_results[a].kind = "count"
                THEN agent_results[a].n ELSE 0
    IN  n("minutes_analyzer") + n("framework_checker") + n("coi_detector")

\* caught at the stage, recorded as an error marker, and the reviewer is
\* handed exactly the findings of the analysis agents
CrossDocumentFailureHandled ==
    /\ StageRaised("cross_document")
    /\ "cross_document" \in DOMAIN agent_results
    /\ agent_results["cross_document"] = error_marker
    /\ pc # "except"
    /\ Status # "failed"
    /\ \A i \in DOMAIN all_findings : all_findings[i].agent_type \in AnalysisAgents
    /\ pc \in {"save", "mark_completed", "done"} =>
          /\ stages[Len(stages)] = "reviewer"
          /\ Len(reviewed[1]) = AgentsFindingCount
          /\ \A i \in DOMAIN reviewed[1] :
                reviewed[1][i].agent_type \in AnalysisAgents
    /\ pc = "done" => Status = "completed"

\* C14 as stated: when the cross-document stage raised, the exception is
\* caught there, the summary's cross_document entry is an error string, the
\* reviewer runs over the findings of the three analysis agents, every one
\* of those findings is a row of the findings table, and the job completes.
C14_AgentFindingsAllPersisted ==
    CrossDocumentRaised =>
        /\ CrossDocumentFailureHandled
        /\ pc = "done" =>
              /\ Summary.by_agent["cross_document"] = error_marker
              /\ TitlesOf(findings_table) = TitlesOf(reviewed[1])

\* C14 amended: the same, except that a finding whose own insert raised is
\* not a row: it is skipped and a save_finding_error entry stands for it.
C14_AgentFindingsPersistedUnlessRejected ==
    CrossDocumentRaised =>
        /\ CrossDocumentFailureHandled
        /\ pc = "done" =>
              /\ Summary.by_agent["cross_document"] = error_marker
              /\ TitlesOf(findings_table) = TitlesOf(Accepted(reviewed[1]))
              /\ \A i \in DOMAIN findings_table :
                    findings_table[i].agent_type \in AnalysisAgents
              /\ CountOf("save_finding_error") =
                     Cardinality(Rejected(reviewed[1]))

C14_Witness ==
    /\ CrossDocumentRaised
    /\ pc = "done"
    /\ calls["cross_document"] = 1
    /\ calls["reviewer"] = 1
    /\ Len(findings_table) >= 2
    /\ Rejected(reviewed[1]) # {}


\* the findings the save loop has been through
Attempted == SubSeq(all_findings, 1, save_i - 1)

\* C15: once the save loop has started, every finding it has been through
\* is either a row of the findings table or, when its insert raised, stands
\* as one save_finding_error audit entry; the loop goes on after a failure
\* until it has been through every finding, and the job completes with
\* total_findings equal to the number of rows.
C15_FailedInsertIsSkipped ==
    save_i >= 1 =>
        /\ pc \in {"save", "mark_completed", "done"}
        /\ save_i <= Len(all_findings) + 1
        /\ TitlesOf(findings_table) = TitlesOf(Accepted(Attempted))
        /\ CountOf("save_finding_error") = Cardinality(Rejected(Attempted))
        /\ saved_count = Len(findings_table)
        /\ pc # "save" => save_i = Len(all_findings) + 1
        /\ pc = "done" =>
              /\ Status = "completed"
              /\ Summary.total_findings = Len(findings_table)

C15_Witness ==
    /\ pc = "done"
    /\ Status = "completed"
    /\ \E i, j \in DOMAIN all_findings :
          /\ i < j
          /\ ~all_findings[i].valid
          /\ all_findings[j].valid
    /\ CountOf("save_finding_error") = 1
    /\ Len(findings_table) = Len(all_findings) - 1


\* the rows stored under this job's identifier
OwnRows == {i \in DOMAIN findings_table : findings_table[i].job_id = job_id}

SummaryStages == AnalysisAgents \cup {"cross_document"}

\* C16: in a completed job, also when another job writes findings into the
\* same store meanwhile, the summary's total_findings is the number of rows
\* stored under the job's identifier, and by_agent has exactly the entries
\* minutes_analyzer, framework_checker, coi_detector and cross_document,
\* each a finding count or an error string (the entry of an agent is there
\* as soon as the agent loop has passed it).
C16_SummaryCountsOwnRows ==
    /\ \A k \in 1..(agent_i - 1) : agents[k] \in DOMAIN agent_results
    /\ Status = "completed" =>
        /\ Summary.total_findings = Cardinality(OwnRows)
        /\ DOMAIN Summary.by_agent = SummaryStages
        /\ \A s \in SummaryStages :
              \/ Summary.by_agent[s] = error_marker
              \/ /\ Summary.by_agent[s].kind = "count"
                 /\ Summary.by_agent[s].n \in 0..Len(all_findings)

C16_Witness ==
    /\ Status = "completed"
    /\ \E i, j, k \in DOMAIN findings_table :
          /\ i < j /\ j < k
          /\ i \in OwnRows /\ j \in OtherRows /\ k \in OwnRows
    /\ Summary.total_findings = Len(findings_table) - 1
    /\ \E s \in SummaryStages : Summary.by_agent[s] = error_marker


\* the filenames of the documents supplied to the job
SuppliedFilenames == {documents[i].filename : i \in DOMAIN documents}

\* C17: every persisted finding whose source_document is present has a
\* source_document equal to the filename of one of the documents supplied
\* to its job.
C17_SourceDocumentIsSupplied ==
    \A i \in OwnRows :
        findings_table[i].source_document # "null" =>
            findings_table[i].source_document \in SuppliedFilenames

\* a row whose source_document names a file the job was not given
C17_Witness ==
    /\ pc = "done"
    /\ Status = "completed"
    /\ SuppliedFilenames = {"jan.pdf"}
    /\ \E i \in OwnRows : findings_table[i].source_document = "policy.pdf"


\* the audit entries an agent wrote, in the order it wrote them
EntriesOf(agent) == SelectSeq(audit_log, LAMBDA e : e.agent_type = agent)

ActionsOf(agent, action) ==
    {i \in DOMAIN EntriesOf(agent) : EntriesOf(agent)[i].action = action}

\* the entry that follows the agent's agent_error entry in the audit log is
\* the caller's "failed" entry about that agent
CallerSawError(agent) ==
    \A i \in DOMAIN audit_log :
        (audit_log[i].agent_type = agent /\ audit_log[i].action = "agent_error") =>
            /\ i < Len(audit_log)
            /\ audit_log[i + 1] = Entry("orchestrator", "failed", agent, 0)

\* C18: for each run of an analysis agent, the agent's first audit entry is
\* agent_started, before any entry of its analysis, and its last entry is
\* exactly one of agent_completed, carrying the number of findings the
\* analysis returned, or agent_error, after which the exception reaches the
\* caller (which records the error marker and logs the failure); no
\* agent_completed entry is written for an analysis that raised.
C18_AgentRunIsBracketedInAudit ==
    \A a \in AnalysisAgents :
        LET es == EntriesOf(a)
            n  == Len(es)
        IN  IF a \notin DOMAIN agent_results
            THEN es = <<>>
            ELSE /\ n >= 2
                 /\ ActionsOf(a, "agent_started") = {1}
                 /\ ActionsOf(a, "agent_completed") \cup ActionsOf(a, "agent_error") = {n}
                 /\ ActionsOf(a, "agent_skipped") = {}
                 /\ IF es[n].action = "agent_completed"
                    THEN agent_results[a] = count_of(es[n].n)
                    ELSE /\ agent_results[a] = error_marker
                         /\ CallerSawError(a)

C18_Witness ==
    /\ pc = "done"
    /\ \E a, b \in AnalysisAgents :
          /\ ActionsOf(a, "agent_completed") # {}
          /\ ActionsOf(a, "batch_analyzed") # {}
          /\ agent_results[a] = count_of(1)
          /\ ActionsOf(b, "agent_error") # {}
          /\ ActionsOf(b, "analyzing_batch") # {}
          /\ agent_results[b] = error_marker


\* C19: the audit log is append-only: every step of the pipeline, of the
\* job endpoint's background task and of the human review endpoint leaves
\* the entries there are as they were and in their place, so the audit log
\* of a state extends the audit log of every earlier state.
C19_AuditLogAppendOnly == [][IsPrefix(audit_log, audit_log')]_vars

\* a human review entry written between entries of the pipeline
C19_Witness ==
    /\ pc = "done"
    /\ \E i \in HumanEntries :
          /\ \E j \in 1..(i - 1) : audit_log[j].action = "save_finding_error"
          /\ \E k \in (i + 1)..Len(audit_log) :
                audit_log[k].action = "orchestration_completed"


\* the generative calls of the job, over all its stages
TotalCalls ==
    calls["minutes_analyzer"] + calls["framework_checker"]
        + calls["coi_detector"] + calls["cross_document"] + calls["reviewer"]

\* C20: each analysis agent issues at most one generative call in a
\* pipeline run, whatever the number of documents, the cross-document
\* stage and the reviewer issue at most one each, and so one job issues at
\* most five generative calls; a stage that was not entered issued none.
C20_AtMostOneCallPerStage ==
    /\ \A s \in StageNames : calls[s] <= 1
    /\ \A s \in StageNames :
          calls[s] = 1 => \E i \in DOMAIN stages : stages[i] = s
    /\ TotalCalls <= 5

\* a job on two documents in which every stage issued its call
C20_Witness ==
    /\ pc = "done"
    /\ Len(documents) = 2
    /\ \A s \in StageNames : calls[s] = 1
    /\ TotalCalls = 5


\* the request the review endpoint answered last
LastPatch == patching[Len(patching)]

\* C21: a patch of a stored finding with status s writes s as the review
\* status in the finding's metadata and keeps the other metadata keys,
\* sets the flagged bit to 1 exactly when s is flagged or disputed and to 0
\* otherwise (whatever the bit was), leaves every other column and every
\* other row as it was, and appends exactly one audit entry; a patch of an
\* unknown identifier is answered 404 and changes neither the findings nor
\* the audit log.
C21_PatchSetsStatusAndFlag ==
    [][patching' # patching =>
        LET req == patching'[Len(patching')]
            id  == req.finding_id
        IN  IF id \notin DOMAIN findings_table
            THEN /\ req.code = 404
                 /\ findings_table' = findings_table
                 /\ audit_log' = audit_log
            ELSE /\ req.code = 200
                 /\ DOMAIN findings_table' = DOMAIN findings_table
                 /\ \A i \in DOMAIN findings_table \ {id} :
                       findings_table'[i] = findings_table[i]
                 /\ findings_table'[id].metadata.review_status = req.status
                 /\ findings_table'[id].metadata.original_confidence
                       = findings_table[id].metadata.original_confidence
                 /\ findings_table'[id].metadata.review_note
                       = findings_table[id].metadata.review_note
                 /\ findings_table'[id].flagged_for_review
                       = (IF req.status \in {"flagged", "disputed"} THEN 1 ELSE 0)
                 /\ [findings_table'[id] EXCEPT
                        !.metadata = findings_table[id].metadata,
                        !.flagged_for_review = findings_table[id].flagged_for_review]
                       = findings_table[id]
                 /\ Len(audit_log') = Len(audit_log) + 1
                 /\ SubSeq(audit_log', 1, Len(audit_log)) = audit_log
                 /\ audit_log'[Len(audit_log')].agent_type = "human_reviewer"
                 /\ audit_log'[Len(audit_log')].action = req.status
    ]_vars

\* a finding the reviewer pass had flagged, patched as verified
C21_Witness ==
    /\ patching # <<>>
    /\ LastPatch.code = 200
    /\ LastPatch.status = "verified"
    /\ findings_table[LastPatch.finding_id].metadata.review_note = "weak evidence"
    /\ findings_table[LastPatch.finding_id].metadata.review_status = "verified"
    /\ findings_table[LastPatch.finding_id].flagged_for_review = 0
    /\ \E i \in HumanEntries : audit_log[i].action = "verified"


Ended == Status \in {"completed", "failed"}

\* C22: every started job eventually reaches completed or failed, every
\* model call and every storage operation returning with a result or with
\* an exception: no job stays pending, running or reviewing forever.
C22_StartedJobEnds == (job # <<>>) ~> Ended

\* the same, but for the jobs whose except clause could not write 'failed'
C22_StartedJobEndsUnlessHandlerRaises == (job # <<>>) ~> (Ended \/ pc = "raised")

\* the background task is over and the job is left as running
C22_Witness ==
    /\ pc = "raised"
    /\ Status = "running"
    /\ exc = <<"No documents found for the given IDs">>


CrossDocumentEntered == \E i \in DOMAIN stages : stages[i] = "cross_document"

CrossDocumentFindings ==
    {i \in DOMAIN all_findings : all_findings[i].agent_type = "cross_document"}

\* C23: once the cross-document stage has been through, a job with fewer
\* than two documents has issued no generative call in it, has no finding
\* of it, and has the count 0 as its summary entry; a job with two or more
\* documents has issued exactly one generative call in it.
C23_CrossDocumentNeedsTwoDocuments ==
    (CrossDocumentEntered /\ pc # "except") =>
        IF Len(documents) < 2
        THEN /\ calls["cross_document"] = 0
             /\ CrossDocumentFindings = {}
             /\ agent_results["cross_document"] = count_of(0)
             /\ pc = "done" /\ Status = "completed"
                   => Summary.by_agent["cross_document"] = count_of(0)
        ELSE calls["cross_document"] = 1

\* a completed job on one document that has findings, none of the stage
C23_Witness ==
    /\ pc = "done"
    /\ Status = "completed"
    /\ Len(documents) = 1
    /\ Len(all_findings) >= 2
    /\ calls["cross_document"] = 0
    /\ Summary.by_agent["cross_document"] = count_of(0)


CrossDocumentRows ==
    {i \in OwnRows : findings_table[i].agent_type = "cross_document"}

\* source_docs[0] if source_docs else None, as the column holds it
FirstOf(source_documents) ==
    IF source_documents = <<>> THEN "null" ELSE source_documents[1]

\* C24: every finding the cross-document stage returned is tagged
\* cross_document (the stage's count is the number of findings that carry
\* the tag), its source_document is the first entry of its source_documents
\* list and is absent when the list is empty or missing, and the persisted
\* finding keeps the whole source_documents list and the evidence_quotes
\* map in its metadata.
C24_CrossDocumentFindingsNormalised ==
    /\ \A i \in CrossDocumentFindings :
          all_findings[i].source_document = FirstOf(all_findings[i].source_documents)
    /\ ("cross_document" \in DOMAIN agent_results
            /\ agent_results["cross_document"] # error_marker)
          => agent_results["cross_document"].n = Cardinality(CrossDocumentFindings)
    /\ \A i \in CrossDocumentRows :
          LET row == findings_table[i]
              f   == FindingNamed(row.title)
          IN  /\ row.source_document = FirstOf(f.source_documents)
              /\ row.metadata.source_documents = f.source_documents
              /\ row.metadata.evidence_quotes = f.evidence_quotes

\* a persisted cross-document finding that names two documents
C24_Witness ==
    /\ pc = "done"
    /\ Status = "completed"
    /\ \E i \in CrossDocumentRows :
          /\ findings_table[i].source_document = "jan.pdf"
          /\ findings_table[i].metadata.source_documents = <<"jan.pdf", "policy.pdf">>
          /\ findings_table[i].metadata.evidence_quotes # <<>>
    /\ agent_results["cross_document"] = count_of(1)


Analyzed == analyzing # <<>> /\ analyzing[1].returned

\* the documents that are the subject of the Framework agent's analysis
MinutesLike(docs) == {i \in DOMAIN docs : docs[i].doc_type \in {"minutes", "other"}}

\* C25: when none of the documents handed to the Framework agent is
\* minutes-like, its analyze returns no findings and issues no generative
\* call (and raises nothing), however many framework or policy documents
\* with text there are.
C25_FrameworkNeedsMinutes ==
    (/\ Analyzed
     /\ analyzing[1].agent = "framework_checker"
     /\ MinutesLike(analyzing[1].docs) = {}) =>
        /\ analyzing[1].out.findings = <<>>
        /\ ~analyzing[1].out.called
        /\ ~analyzing[1].out.raised

\* a policy and a framework document with text, and a response with a
\* finding that is never asked for
C25_Witness ==
    /\ Analyzed
    /\ analyzing[1].agent = "framework_checker"
    /\ Len(analyzing[1].docs) = 2
    /\ analyzing[1].docs[1].doc_type = "policy"
    /\ analyzing[1].docs[2].doc_type = "framework"
    /\ \A i \in DOMAIN analyzing[1].docs : analyzing[1].docs[i].content = "text"
    /\ analyzing[1].resp.text = <<"[", "A", "]">>
    /\ analyzing[1].out.findings = <<>>
    /\ ~analyzing[1].out.called


\* the stages whose entry in the result map is an error string
FailedStages ==
    {s \in DOMAIN agent_results : agent_results[s] = error_marker}

\* C26: in every completed job, for each of minutes_analyzer,
\* framework_checker, coi_detector and cross_document whose by_agent entry
\* is an error string, no persisted finding of the job carries that stage's
\* agent identifier (nor does, at any time, an accumulated finding carry
\* the identifier of a stage recorded as failed).
C26_FailedStageHasNoFindings ==
    /\ \A s \in FailedStages :
          /\ \A i \in DOMAIN all_findings : all_findings[i].agent_type # s
          /\ \A i \in OwnRows : findings_table[i].agent_type # s
    /\ Status = "completed" =>
          \A s \in SummaryStages :
              Summary.by_agent[s] = error_marker =>
                  \A i \in OwnRows : findings_table[i].agent_type # s

\* a completed job with two failed stages and rows of the two others
C26_Witness ==
    /\ pc = "done"
    /\ Status = "completed"
    /\ Summary.by_agent["framework_checker"] = error_marker
    /\ Summary.by_agent["cross_document"] = error_marker
    /\ \E i, j \in OwnRows :
          /\ findings_table[i].agent_type = "minutes_analyzer"
          /\ findings_table[j].agent_type = "coi_detector"


\* the rows of the job whose flagged bit is set
FlaggedRows == {i \in OwnRows : findings_table[i].flagged_for_review = 1}

\* C27: in every completed job the summary's flagged_for_review count is
\* the number of findings persisted for the job with the flagged bit set,
\* and so never exceeds the summary's total_findings, also when persisting
\* some findings failed.
C27_FlaggedCountIsPersistedFlagged ==
    Status = "completed" =>
        /\ Summary.flagged_for_review = Cardinality(FlaggedRows)
        /\ Summary.flagged_for_review <= Summary.total_findings

\* what the summary counts: the flagged findings of the reviewed list,
\* persisted or not; the two counts agree when no insert raised
C27_FlaggedCountIsOfReviewedList ==
    Status = "completed" =>
        /\ Summary.flagged_for_review = FlaggedCount(all_findings)
        /\ Summary.flagged_for_review
              = Cardinality(FlaggedRows) + Cardinality({i \in Rejected(all_findings) :
                                                          all_findings[i].flagged_for_review})

\* a completed job that reports more flagged findings than findings
C27_Witness ==
    /\ pc = "done"
    /\ Status = "completed"
    /\ Summary.total_findings = 1
    /\ Summary.flagged_for_review = 2
    /\ Cardinality(FlaggedRows) = 1
    /\ CountOf("save_finding_error") >= 1


\* C28: whenever a finding is stored under the job's identifier, the job's
\* status is reviewing or completed: no finding of the job exists while the
\* job is pending or running, and a job that ends failed has no persisted
\* finding.
C28_RowsOnlyWhenReviewingOrCompleted ==
    /\ OwnRows # {} => Status \in {"reviewing", "completed"}
    /\ Status \in {"none", "pending", "running", "failed"} => OwnRows = {}

\* the save loop under way: a row is stored, a finding is still to come,
\* and the job is reviewing
C28_Witness ==
    /\ pc = "save"
    /\ Status = "reviewing"
    /\ Cardinality(OwnRows) = 1
    /\ save_i <= Len(all_findings)


\* the reviewer stage has returned to Orchestrator.run
ReviewerReturned == reviewed # <<>> /\ pc \in {"save", "mark_completed", "done"}

\* the finding with the four fields the reviewer may write put back
Unreviewed(after, before) ==
    [after EXCEPT !.confidence = before.confidence,
                  !.original_confidence = before.original_confidence,
                  !.flagged_for_review = before.flagged_for_review,
                  !.review_note = before.review_note]

ReviewerEntries == {i \in DOMAIN audit_log : audit_log[i].agent_type = "reviewer"}

\* C29: the reviewer stage returns the findings it received, in the same
\* order, whether it succeeds or fails: none is added, removed or moved,
\* and no field other than confidence, original_confidence,
\* flagged_for_review and review_note differs (none at all when the stage
\* failed); with an empty list it issues no generative call and writes no
\* audit entry.
C29_ReviewerKeepsFindings ==
    ReviewerReturned =>
        /\ Len(all_findings) = Len(reviewed[1])
        /\ \A i \in DOMAIN all_findings :
              Unreviewed(all_findings[i], reviewed[1][i]) = reviewed[1][i]
        /\ CountOf("reviewer_error") = 1 => all_findings = reviewed[1]
        /\ reviewed[1] = <<>> =>
              /\ calls["reviewer"] = 0
              /\ ReviewerEntries = {}
        /\ reviewed[1] # <<>> => calls["reviewer"] = 1

\* a reviewed list of two findings, the first one adjusted and flagged and
\* the second one as it was
C29_Witness ==
    /\ ReviewerReturned
    /\ Len(all_findings) = 2
    /\ CountOf("reviewer_completed") = 1
    /\ all_findings[1].confidence # reviewed[1][1].confidence
    /\ all_findings[1].flagged_for_review /\ ~reviewed[1][1].flagged_for_review
    /\ all_findings[1].review_note = "weak evidence"
    /\ all_findings[2] = reviewed[1][2]


Reviewed == reviewing # <<>> /\ reviewing[1].returned

\* the positions in the returned array of the reviews whose finding_index
\* is k
ReviewsFor(reviews, k) == {j \in DOMAIN reviews : reviews[j].finding_index = k}

Last(S) == CHOOSE j \in S : \A j2 \in S : j2 <= j

\* C30: when the reviewer's response is an array of reviews, the finding at
\* position i of the accumulated list (counted from 0) comes back as it was
\* when no review carries finding_index i, and else with the last review of
\* the array that carries finding_index i applied to it, wherever in the
\* array that review stands; so a review without finding_index, or with an
\* index outside the list, changes no finding.
C30_ReviewAppliedByFindingIndex ==
    (Reviewed /\ reviewing[1].resp.kind = "array"
              /\ reviewing[1].findings # <<>>) =>
        LET before  == reviewing[1].findings
            after   == reviewing[1].out.findings
            reviews == reviewing[1].resp.items
        IN  /\ Len(after) = Len(before)
            /\ \A i \in DOMAIN before :
                  IF ReviewsFor(reviews, i - 1) = {}
                  THEN after[i] = before[i]
                  ELSE after[i] = apply_review(before[i],
                                      reviews[Last(ReviewsFor(reviews, i - 1))])
            /\ (\A j \in DOMAIN reviews :
                    reviews[j].finding_index \notin 0..(Len(before) - 1))
                  => after = before

\* two reviews of the second finding: the first one would flag it, the
\* last one, which does not, is the one applied; the first finding, at the
\* position of neither index, is as it was
C30_Witness ==
    /\ Reviewed
    /\ Len(reviewing[1].findings) = 2
    /\ reviewing[1].resp.kind = "array"
    /\ Len(reviewing[1].resp.items) = 2
    /\ reviewing[1].resp.items[1].finding_index = 1
    /\ reviewing[1].resp.items[2].finding_index = 1
    /\ reviewing[1].resp.items[1].flag_for_review
    /\ ~reviewing[1].resp.items[2].flag_for_review
    /\ ~reviewing[1].findings[2].flagged_for_review
    /\ ~reviewing[1].out.findings[2].flagged_for_review
    /\ reviewing[1].out.findings[1] = reviewing[1].findings[1]

====
